---- MODULE Spec2Model ----
(***************************************************************************)
(* CCTVAI: stream workers (producers), the bounded frame queue, and the   *)
(* orchestrator CCTVAI.start() (the single consumer) with _process_frame. *)
(*                                                                         *)
(* Sources: src/src/cctvai/streaming/manager.py, src/src/cctvai/pipeline.py*)
(*          src/src/cctvai/detectors/behaviour.py, src/src/cctvai/storage.py*)
(***************************************************************************)
EXTENDS Integers, Sequences, FiniteSets, TLC

(* ------------------------------ bounds -------------------------------- *)
\* Queue(maxsize=32) of manager.py:79, scaled down so that a full queue is reached.
QueueMaxSize == 2
\* VideoBehaviourClassifier(window=16) of behaviour.py:23, scaled down.
Window == 2
\* Decoded frames a capture delivers before read() reports the end of the stream.
MaxFrames == 2
\* Largest sampling_rate a stream is configured with.
MaxRate == 2
\* Largest number of detections the person detector returns for one frame.
MaxDet == 2
\* The clock (utcnow) is read as a tick count below this bound.
MaxTime == 1

(* --------------------------- configuration ---------------------------- *)
\* config.streams: the configured streams, by name.
Streams == {"A", "B"}
\* config.detection.behaviour_labels (keys): the behaviours of interest.
behaviour_labels == {"smoking"}
\* The alert threshold 0.6 of pipeline.py:89, in hundredths.
Threshold == 60
\* Python's None where a str is expected.
None == "None"
\* An Optional[int]: None is the empty tuple, the integer n is <<n>>.
NoneInt == <<>>
Some(n) == <<n>>
\* None where a dict is expected.
NoneDict == <<>>

(* ---------------------------- collaborators --------------------------- *)
\* What the collaborators of _process_frame can do is given to the actions as
\* an environment e:
\*   e.dets         the numbers of detections detect() can return for a frame,
\*   e.predictions  the (label, confidence) results predict() can return,
\*   e.faces        the results analyze() can return,
\*   e.faults       the calls that can raise, among "detect", "record_alert"
\*                  and "record_stat",
\*   e.ticks        by how much the clock can advance between two frames.

\* Results the loaded video-classification pipeline can return from predict():
\* a behaviour of interest above the threshold, one exactly at it, another label.
Predictions == {<<"smoking", 75>>, <<"smoking", 60>>, <<"walking", 90>>}
\* Results DeepFaceAnalytics.analyze can return (face.py:29-45); raises: an exception.
FaceOutcomes ==
    {[raises |-> TRUE,  age |-> NoneInt,  gender |-> None,  emotion |-> None],
     [raises |-> FALSE, age |-> Some(34), gender |-> "Man", emotion |-> "happy"]}
\* face_analytics is None (collect_demographics is off): analyze is not called.
NoFace == [raises |-> FALSE, age |-> NoneInt, gender |-> None, emotion |-> None]

VARIABLES
    enabled,         \* the streams whose StreamConfig.enabled is true
    sampling_rate,   \* StreamConfig.sampling_rate per stream
    collect_demographics, \* config.analytics.collect_demographics
    aggregation_interval_seconds, \* config.analytics.aggregation_interval_seconds
    source_frames,   \* per stream: the frames its source (StreamConfig.url)
                     \* can deliver before read() reports the end
    wpc,             \* position of each StreamWorker thread
    frame_id,        \* StreamWorker.run local frame_id per worker
    capture,         \* StreamWorker._capture per worker
    queue,           \* StreamManager.queue
    stop_event,      \* StreamManager.stop_event
    cctv_stop_event, \* CCTVAI._stop_event
    opc,             \* position of the thread running CCTVAI.start()
    exc,             \* the exception propagating out of CCTVAI.start(), if any
    buffer,          \* VideoBehaviourClassifier._buffer (one instance)
    states,          \* CCTVAI.states: StreamState per stream name
    now,             \* the clock read by dt.datetime.utcnow()
    enqueued,        \* history: frames whose put completed, in order
    dequeued,        \* history: frames returned by queue.get(), in order
    enqAtStop,       \* history: Len(enqueued) when CCTVAI.stop() was called
    nprocessed,      \* history: number of _process_frame calls so far
    last             \* history: what the last _process_frame call did: the
                     \* frame, the number of detections, the labels that
                     \* had an active_alerts entry before it, the detections
                     \* on which analyze raised, the observations, alerts
                     \* and stat it produced, and the exception it raised

config == <<enabled, sampling_rate, collect_demographics,
           aggregation_interval_seconds, source_frames>>
workers == <<wpc, frame_id, capture>>
pipeline == <<buffer, states, now, nprocessed, last>>
vars == <<config, workers, queue, stop_event, cctv_stop_event, opc, exc,
          pipeline, enqueued, dequeued, enqAtStop>>

(* ------------------- streaming/manager.py: the queue ------------------ *)
\* Frame(stream, frame_id, data, timestamp): data and timestamp are not read
\* by any decision of the pipeline; a frame is identified by stream and id.
\* A frame whose frame_id comes from a counter that wraps around:
FrameWrapping(s, n) == [stream |-> s, frame_id |-> n % 2]

\* Frame(stream, frame_id, ...) as run() builds it, line 62.
Frame(s, n) == [stream |-> s, frame_id |-> n]

\* A queue built without maxsize: it is never full.
QueueUnbounded(q) == FALSE

\* Queue.full(): put blocks while this holds (maxsize > 0).
QueueFull(q) == Len(q) >= QueueMaxSize

\* A LifoQueue: the item goes to the end that get takes from.
QueuePutFront(q, f) == <<f>> \o q

\* Queue.put on a queue with a free slot: the item goes to the tail.
QueuePut(q, f) == Append(q, f)

\* Queue.get on a non-empty queue: the item at the head is returned ...
QueueGetItem(q) == Head(q)

\* ... and removed.
QueueGetRest(q) == Tail(q)

(* ----------------- streaming/manager.py: StreamWorker ----------------- *)
\* The sampling test on a 0-based index: frames 1, N+1, 2N+1, ... pass.
AcceptedZeroBased(n, rate) == (n - 1) % rate = 0

\* run(), line 59: the frame is skipped unless frame_id % sampling_rate == 0.
Accepted(n, rate) == n % rate = 0

\* A worker thread that has ended (normally, or by the RuntimeError of open_capture).
Terminated(w) == wpc[w] \in {"done", "failed"}

\* An open_capture() whose failure is fatal to the whole manager: the
\* RuntimeError also sets stop_event.
WorkerOpenFatal(w) ==
    /\ wpc[w] = "start"
    /\ \E opened \in BOOLEAN :
         IF opened
         THEN /\ wpc' = [wpc EXCEPT ![w] = "loop"]
              /\ capture' = [capture EXCEPT ![w] = "open"]
              /\ UNCHANGED stop_event
         ELSE /\ wpc' = [wpc EXCEPT ![w] = "failed"]
              /\ stop_event' = TRUE
              /\ UNCHANGED capture
    /\ UNCHANGED <<config, frame_id, queue, cctv_stop_event, opc,
                   exc, pipeline, enqueued, dequeued, enqAtStop>>

\* run(), line 52: open_capture() returns a capture, or raises RuntimeError
\* when the source cannot be opened, which ends the thread.
WorkerOpen(w) ==
    /\ wpc[w] = "start"
    /\ \E opened \in BOOLEAN :
         IF opened
         THEN /\ wpc' = [wpc EXCEPT ![w] = "loop"]
              /\ capture' = [capture EXCEPT ![w] = "open"]
         ELSE /\ wpc' = [wpc EXCEPT ![w] = "failed"]
              /\ UNCHANGED capture
    /\ UNCHANGED <<config, frame_id, queue, stop_event, cctv_stop_event, opc,
                   exc, pipeline, enqueued, dequeued, enqAtStop>>

\* run(), lines 53 and 69-71: the loop test finds stop_event set; the capture
\* is released and the thread ends.
WorkerStopped(w) ==
    /\ wpc[w] = "loop"
    /\ stop_event
    /\ wpc' = [wpc EXCEPT ![w] = "done"]
    /\ capture' = [capture EXCEPT ![w] = "released"]
    /\ UNCHANGED <<config, frame_id, queue, stop_event, cctv_stop_event, opc,
                   exc, pipeline, enqueued, dequeued, enqAtStop>>

\* run(), lines 53-60 and 69-71: one iteration up to the put. read() fails
\* (end of stream, at the latest after source_frames frames): break and release. Otherwise frame_id is incremented and
\* the frame is either skipped (continue) or is to be put on the queue.
WorkerRead(w) ==
    /\ wpc[w] = "loop"
    /\ ~stop_event
    /\ \E ok \in BOOLEAN :
         /\ ok => frame_id[w] < source_frames[w]
         /\ IF ~ok
            THEN /\ wpc' = [wpc EXCEPT ![w] = "done"]
                 /\ capture' = [capture EXCEPT ![w] = "released"]
                 /\ UNCHANGED frame_id
            ELSE /\ frame_id' = [frame_id EXCEPT ![w] = frame_id[w] + 1]
                 /\ wpc' = [wpc EXCEPT ![w] =
                        IF Accepted(frame_id[w] + 1, sampling_rate[w])
                        THEN "put" ELSE "loop"]
                 /\ UNCHANGED capture
    /\ UNCHANGED <<config, queue, stop_event, cctv_stop_event, opc,
                   exc, pipeline, enqueued, dequeued, enqAtStop>>

\* run(), lines 61-68: queue.put(Frame(...)) with no timeout: it waits while
\* the queue is full, then appends, and the loop goes on.
WorkerPut(w) ==
    /\ wpc[w] = "put"
    /\ ~QueueFull(queue)
    /\ queue' = QueuePut(queue, Frame(w, frame_id[w]))
    /\ enqueued' = Append(enqueued, Frame(w, frame_id[w]))
    /\ wpc' = [wpc EXCEPT ![w] = "loop"]
    /\ UNCHANGED <<config, frame_id, capture, stop_event, cctv_stop_event, opc,
                   exc, pipeline, dequeued, enqAtStop>>

(* --------- detectors/behaviour.py: VideoBehaviourClassifier ----------- *)
\* A window kept per stream: an entry of another stream's frame starts the
\* window afresh.
BufferAppendOwnStream(buf, f) ==
    IF buf # <<>> /\ buf[Len(buf)].stream # f.stream THEN <<f>>
    ELSE IF Len(buf) < Window THEN Append(buf, f) ELSE Append(Tail(buf), f)

\* A deque without maxlen: nothing is ever dropped.
BufferAppendUnbounded(buf, f) == Append(buf, f)

\* deque(maxlen=window).append: at maxlen the oldest entry is dropped.
BufferAppend(buf, f) ==
    IF Len(buf) < Window THEN Append(buf, f) ELSE Append(Tail(buf), f)

\* update(), lines 35-37, after the append: the results the call can return.
\* Below the window it is ("unknown", 0.0); at the window it is what predict
\* returns, which the loaded model decides (predictions).
UpdateResults(buf, predictions) ==
    IF Len(buf) < Window THEN {<<"unknown", 0>>} ELSE predictions

(* ---------------------- pipeline.py: _flush_stats --------------------- *)
\* collections.Counter(obs.gender ...).get(key), lines 110 and 121-122: the
\* count, or None for a key never counted.
CounterGet(persons, key) ==
    LET n == Cardinality({i \in DOMAIN persons : persons[i].gender = key})
    IN  IF n = 0 THEN NoneInt ELSE Some(n)

\* Python's "a or b": b when a is None or 0, else a.
PyOr(a, b) == IF a = NoneInt \/ a = Some(0) THEN b ELSE a

\* A bucket key made of the age itself, not of its decade: f"{obs.age}s".
BucketExact(age) == <<age[1], "s">>

\* Line 115: the bucket key f"{(obs.age // 10) * 10}s".
Bucket(age) == <<(age[1] \div 10) * 10, "s">>

\* A histogram that files the observations without an age under age 0.
AgeHistogramUnknownAsZero(persons) ==
    LET idx  == DOMAIN persons
        ageOf(i) == IF persons[i].age = NoneInt THEN Some(0) ELSE persons[i].age
        keys == {Bucket(ageOf(i)) : i \in idx}
    IN  IF idx = {} THEN NoneDict
        ELSE [k \in keys |-> Cardinality({i \in idx : Bucket(ageOf(i)) = k})]

\* Lines 112-116 and 123: dict(age_histogram) if age_histogram else None.
AgeHistogram(persons) ==
    LET idx  == {i \in DOMAIN persons : persons[i].age # NoneInt}
        keys == {Bucket(persons[i].age) : i \in idx}
    IN  IF idx = {} THEN NoneDict
        ELSE [k \in keys |-> Cardinality({i \in idx : Bucket(persons[i].age) = k})]

\* Lines 111 and 124: dict(emotion_counts) if emotion_counts else None, the
\* counter being over the observations with a truthy emotion.
EmotionCounts(persons) ==
    LET idx  == {i \in DOMAIN persons : persons[i].emotion \notin {None, ""}}
        keys == {persons[i].emotion : i \in idx}
    IN  IF idx = {} THEN NoneDict
        ELSE [k \in keys |-> Cardinality({i \in idx : persons[i].emotion = k})]

\* _flush_stats, lines 109-126: the arguments handed to record_stat.
FlushStats(s, persons) ==
    [stream_name          |-> s,
     person_count         |-> Len(persons),
     male_count           |-> PyOr(CounterGet(persons, "Man"), CounterGet(persons, "Male")),
     female_count         |-> PyOr(CounterGet(persons, "Woman"), CounterGet(persons, "Female")),
     age_distribution     |-> AgeHistogram(persons),
     emotion_distribution |-> EmotionCounts(persons)]

(* --------------------- pipeline.py: _process_frame -------------------- *)
\* The alert condition with the threshold included: confidence >= 0.6.
QualifiesAtLeast(label, confidence) ==
    label \in behaviour_labels /\ confidence >= Threshold

\* Line 89: the alert condition.
Qualifies(label, confidence) ==
    label \in behaviour_labels /\ confidence > Threshold

\* An alert tagged with the name of one fixed stream, not the frame's.
AlertFirstStream(s, label, confidence) ==
    [stream_name |-> "A", event_type |-> label, confidence |-> confidence]

\* record_alert's arguments, lines 90-96 (the message is a function of the
\* label and the confidence).
Alert(s, label, confidence) ==
    [stream_name |-> s, event_type |-> label, confidence |-> confidence]

\* Lines 76-88: the observation of detection i, from what analyze returned
\* (when it raises, the except clause logs it and the fields keep their
\* default None) and what update returned. The bbox is the position of the
\* detection in the detector's list; the emotions dict is read by nothing.
Observation(i, face, res) ==
    [bbox    |-> i,
     age     |-> IF face.raises THEN NoneInt ELSE face.age,
     gender  |-> IF face.raises THEN None ELSE face.gender,
     emotion |-> IF face.raises THEN None ELSE face.emotion,
     last_event            |-> res[1],
     last_event_confidence |-> res[2]]

\* The local state of the loop over the detections, lines 75-98:
\* the classifier buffer, the observations list, the alerts recorded, the
\* labels whose active_alerts entry was set, the detections on which analyze
\* raised, and the exception in flight.
LoopStart(buf) ==
    [buffer |-> buf, observations |-> <<>>, alerts |-> <<>>, raised |-> {},
     analyze_raised |-> {}, exc |-> "none"]

\* One iteration in which an analyze that raises ends the iteration (the
\* detection gets no observation) instead of leaving the fields unset.
DetectionStepSkipping(acc, f, i, cd, e) ==
    LET buf   == BufferAppend(acc.buffer, f)
        faces == IF cd THEN e.faces ELSE {NoFace}
    IN  UNION { UNION {
          IF face.raises
          THEN { [acc EXCEPT !.analyze_raised = @ \cup {i}] }
          ELSE IF Qualifies(res[1], res[2])
          THEN { [acc EXCEPT !.buffer = buf,
                             !.alerts = Append(@, Alert(f.stream, res[1], res[2])),
                             !.raised = @ \cup {res[1]},
                             !.observations = Append(@, Observation(i, face, res))] }
          ELSE { [acc EXCEPT !.buffer = buf,
                             !.observations = Append(@, Observation(i, face, res))] }
          : res \in UpdateResults(buf, e.predictions) } : face \in faces }

\* One iteration, lines 75-98, for detection i of frame f: every state the
\* iteration can end in, over what analyze and predict return and whether
\* record_alert succeeds. A failed record_alert raises out of the loop
\* before active_alerts is set and before the observation is appended.
DetectionStep(acc, f, i, cd, e) ==
    LET buf   == BufferAppend(acc.buffer, f)
        faces == IF cd THEN e.faces ELSE {NoFace}
        rsd(face) == IF face.raises THEN acc.analyze_raised \cup {i}
                     ELSE acc.analyze_raised
    IN  UNION { UNION {
          IF Qualifies(res[1], res[2])
          THEN { [acc EXCEPT !.buffer = buf,
                             !.analyze_raised = rsd(face),
                             !.alerts = Append(@, Alert(f.stream, res[1], res[2])),
                             !.raised = @ \cup {res[1]},
                             !.observations = Append(@, Observation(i, face, res))] }
               \cup
               { [acc EXCEPT !.buffer = buf, !.analyze_raised = rsd(face),
                             !.exc = "record_alert"] :
                   x \in e.faults \cap {"record_alert"} }
          ELSE { [acc EXCEPT !.buffer = buf,
                             !.analyze_raised = rsd(face),
                             !.observations = Append(@, Observation(i, face, res))] }
          : res \in UpdateResults(buf, e.predictions) } : face \in faces }

\* The loop over detections i..d: every state it can end in.
RECURSIVE DetectionLoop(_, _, _, _, _, _)
DetectionLoop(acc, f, i, d, cd, e) ==
    IF i > d \/ acc.exc # "none" THEN {acc}
    ELSE UNION { DetectionLoop(a, f, i + 1, d, cd, e) :
                   a \in DetectionStep(acc, f, i, cd, e) }

\* The frame-less value of the history variable last.
NoFrame == [stream |-> None, frame_id |-> 0]
NoStat == [stream_name |-> None]

\* active_alerts after the labels in raised were set to the time t (line 97).
SetAlerts(active, raised, t) ==
    [l \in (DOMAIN active) \cup raised |-> IF l \in raised THEN t ELSE active[l]]

\* Lines 99-105 for stream s at time t, once the loop ended without an
\* exception: persons is replaced; when the interval has elapsed the stats
\* are flushed and last_stat_flush is set, unless record_stat raises
\* (statOk false), which leaves last_stat_flush as it was.
\* The result: the new StreamState, the stat recorded, the exception.
\* The flush test with a strict comparison: elapsed > interval.
FlushDueStrict(t, st) == t - st.last_stat_flush > aggregation_interval_seconds

FlushDue(t, st) == t - st.last_stat_flush >= aggregation_interval_seconds

\* The same with the new observations merged into the list of the frame
\* before instead of replacing it.
UpdateStateMerging(s, st, observations, t, statOk) ==
    LET st1 == [st EXCEPT !.persons = @ \o observations]
    IN  IF ~FlushDue(t, st1)
        THEN [state |-> st1, stat |-> NoStat, exc |-> "none"]
        ELSE IF statOk
        THEN [state |-> [st1 EXCEPT !.last_stat_flush = t],
              stat |-> FlushStats(s, st1.persons), exc |-> "none"]
        ELSE [state |-> st1, stat |-> NoStat, exc |-> "record_stat"]

UpdateState(s, st, observations, t, statOk) ==
    LET st1 == [st EXCEPT !.persons = observations]
    IN  IF ~FlushDue(t, st1)
        THEN [state |-> st1, stat |-> NoStat, exc |-> "none"]
        ELSE IF statOk
        THEN [state |-> [st1 EXCEPT !.last_stat_flush = t],
              stat |-> FlushStats(s, st1.persons), exc |-> "none"]
        ELSE [state |-> st1, stat |-> NoStat, exc |-> "record_stat"]

(* --------------------- pipeline.py: CCTVAI.start ---------------------- *)
\* start(), lines 58-59, and StreamManager.start(): the worker thread of every
\* enabled stream (manager.py:78) is started and the consume loop is entered.
Start ==
    /\ opc = "init"
    /\ opc' = "loop"
    /\ wpc' = [w \in Streams |-> IF w \in enabled THEN "start" ELSE wpc[w]]
    /\ UNCHANGED <<config, frame_id, capture, queue, stop_event, cctv_stop_event,
                   exc, pipeline, enqueued, dequeued, enqAtStop>>

\* CCTVAI.stop(), lines 68-69, called from another thread.
RequestStop ==
    /\ opc \in {"init", "loop"}
    /\ ~cctv_stop_event
    /\ cctv_stop_event' = TRUE
    /\ enqAtStop' = Len(enqueued)
    /\ UNCHANGED <<config, workers, queue, stop_event, opc, exc, pipeline,
                   enqueued, dequeued>>

\* A finally clause that goes to the joins without setting stop_event.
LeaveLoopNoSignal(e) ==
    /\ stop_event' = stop_event
    /\ exc' = e
    /\ opc' = "joining"

\* The finally clause of start(), line 66, up to the joins: StreamManager.stop()
\* sets stop_event (line 89). e is the exception that left the loop, if any.
LeaveLoop(e) ==
    /\ stop_event' = TRUE
    /\ exc' = e
    /\ opc' = "joining"

\* frames() hands out the next frame (lines 95-97: stop_event is not set, get
\* returns the head of the queue) and the loop body finds _stop_event set
\* (lines 62-63): break, without processing the frame.
OrchBreak ==
    /\ opc = "loop"
    /\ ~stop_event
    /\ queue # <<>>
    /\ cctv_stop_event
    /\ queue' = QueueGetRest(queue)
    /\ dequeued' = Append(dequeued, QueueGetItem(queue))
    /\ LeaveLoop("none")
    /\ UNCHANGED <<config, workers, cctv_stop_event, pipeline, enqueued, enqAtStop>>

\* frames() hands out the next frame and _process_frame runs on it (line 64).
\* detect may raise; the loop over the detections may raise in record_alert;
\* the flush may raise in record_stat. Any exception leaves the loop through
\* the finally clause. Both utcnow() calls of one frame read the clock at t.
OrchProcess(e) ==
    /\ opc = "loop"
    /\ ~stop_event
    /\ queue # <<>>
    /\ ~cctv_stop_event
    /\ LET f == QueueGetItem(queue)
           s == f.stream
       IN
       /\ queue' = QueueGetRest(queue)
       /\ dequeued' = Append(dequeued, f)
       /\ nprocessed' = nprocessed + 1
       /\ \E t \in {now + k : k \in {j \in e.ticks : now + j <= MaxTime}} :
          /\ now' = t
          /\ \/ \* person_detector.detect raises (line 73)
                /\ "detect" \in e.faults
                /\ UNCHANGED <<buffer, states>>
                /\ last' = [frame |-> f, detections |-> 0,
                            active_before |-> DOMAIN states[s].active_alerts,
                            analyze_raised |-> {},
                            observations |-> <<>>, alerts |-> <<>>,
                            stat |-> NoStat, exc |-> "detect"]
                /\ LeaveLoop("detect")
             \/ \E d \in e.dets :
                \E r \in DetectionLoop(LoopStart(buffer), f, 1, d,
                                       collect_demographics, e) :
                \E statOk \in {TRUE} \cup {FALSE : x \in e.faults \cap {"record_stat"}} :
                LET act == SetAlerts(states[s].active_alerts, r.raised, t)
                    st0 == [states[s] EXCEPT !.active_alerts = act]
                    u   == UpdateState(s, st0, r.observations, t, statOk)
                IN
                /\ buffer' = r.buffer
                /\ IF r.exc # "none"
                   THEN /\ states' = [states EXCEPT ![s] = st0]
                        /\ last' = [frame |-> f, detections |-> d,
                                    active_before |-> DOMAIN states[s].active_alerts,
                                    analyze_raised |-> r.analyze_raised,
                                    observations |-> r.observations,
                                    alerts |-> r.alerts, stat |-> NoStat,
                                    exc |-> r.exc]
                        /\ LeaveLoop(r.exc)
                   ELSE /\ states' = [states EXCEPT ![s] = u.state]
                        /\ last' = [frame |-> f, detections |-> d,
                                    active_before |-> DOMAIN states[s].active_alerts,
                                    analyze_raised |-> r.analyze_raised,
                                    observations |-> r.observations,
                                    alerts |-> r.alerts, stat |-> u.stat,
                                    exc |-> u.exc]
                        /\ IF u.exc # "none"
                           THEN LeaveLoop(u.exc)
                           ELSE UNCHANGED <<stop_event, exc, opc>>
    /\ UNCHANGED <<config, workers, cctv_stop_event, enqueued, enqAtStop>>

\* The joins without their timeout: they end only when every worker started
\* has ended.
ManagerJoinNoTimeout ==
    /\ opc = "joining"
    /\ \A w \in enabled : Terminated(w)
    /\ opc' = IF exc = "none" THEN "returned" ELSE "raised"
    /\ UNCHANGED <<config, workers, queue, stop_event, cctv_stop_event, exc,
                   pipeline, enqueued, dequeued, enqAtStop>>

\* StreamManager.stop(), lines 90-92, and the end of start(): each worker is
\* joined for at most 2 seconds, so the joins end whether or not the workers
\* have; then start() returns, or the exception that left the loop propagates.
ManagerJoin ==
    /\ opc = "joining"
    /\ opc' = IF exc = "none" THEN "returned" ELSE "raised"
    /\ UNCHANGED <<config, workers, queue, stop_event, cctv_stop_event, exc,
                   pipeline, enqueued, dequeued, enqAtStop>>

(* ------------------------------ the system ---------------------------- *)
\* The state after CCTVAI(config) is constructed, for a configuration with
\* the given choices: which streams are enabled, how many frames a source
\* holds, the sampling rates, collect_demographics and the aggregation
\* interval.
InitOf(enabledSets, lengths, rates, demographics, intervals) ==
    /\ enabled \in enabledSets
    /\ source_frames \in [Streams -> lengths]
    /\ sampling_rate \in [Streams -> rates]
    /\ collect_demographics \in demographics
    /\ aggregation_interval_seconds \in intervals
    /\ wpc = [w \in Streams |-> "new"]
    /\ frame_id = [w \in Streams |-> 0]
    /\ capture = [w \in Streams |-> "none"]
    /\ queue = <<>>
    /\ stop_event = FALSE
    /\ cctv_stop_event = FALSE
    /\ opc = "init"
    /\ exc = "none"
    /\ buffer = <<>>
    /\ now = 0
    /\ states = [s \in Streams |->
                   [persons |-> <<>>, last_stat_flush |-> 0, active_alerts |-> <<>>]]
    /\ enqueued = <<>>
    /\ dequeued = <<>>
    /\ enqAtStop = 0
    /\ nprocessed = 0
    /\ last = [frame |-> NoFrame, detections |-> 0, active_before |-> {},
               analyze_raised |-> {}, observations |-> <<>>, alerts |-> <<>>,
               stat |-> NoStat, exc |-> "none"]

\* The same, with every configured stream enabled and sources of MaxFrames
\* frames.
InitWith(rates, demographics, intervals) ==
    InitOf({Streams}, {MaxFrames}, rates, demographics, intervals)

Worker(w) == WorkerOpen(w) \/ WorkerStopped(w) \/ WorkerRead(w) \/ WorkerPut(w)

Orchestrator(e) == Start \/ OrchBreak \/ OrchProcess(e) \/ ManagerJoin

\* The whole system in the environment e.
NextIn(e) ==
    \/ \E w \in Streams : WorkerOpen(w)
    \/ \E w \in Streams : WorkerStopped(w)
    \/ \E w \in Streams : WorkerRead(w)
    \/ \E w \in Streams : WorkerPut(w)
    \/ Start
    \/ RequestStop
    \/ OrchBreak
    \/ OrchProcess(e)
    \/ ManagerJoin

\* Spec: the workers, the queue and the consume loop, for every configured
\* sampling rate and aggregation interval, over frames in which the detector
\* finds no person; the clock ticks, and detect() and record_stat() can raise.
BusEnv ==
    [dets |-> {0}, predictions |-> Predictions, faces |-> FaceOutcomes,
     faults |-> {"detect", "record_stat"}, ticks |-> {0, 1}]

Init == InitWith(1..MaxRate, {FALSE}, 0..MaxTime)

Next == NextIn(BusEnv)

Spec == Init /\ [][Next]_vars

\* Every thread that can take a step eventually takes one; CCTVAI.stop() is
\* called by the environment, or never.
FairSpec ==
    /\ Spec
    /\ \A w \in Streams : WF_vars(Worker(w))
    /\ WF_vars(Orchestrator(BusEnv))

\* SpecPipeline: _process_frame over frames with up to MaxDet persons, every
\* prediction and every fault, for two streams sampled at every frame, with
\* the stats flushed at every frame; CCTVAI.stop() is never called (Spec has
\* the runs in which it is).
PipelineEnv ==
    [dets |-> 0..MaxDet, predictions |-> Predictions, faces |-> FaceOutcomes,
     faults |-> {"detect", "record_alert", "record_stat"}, ticks |-> {0}]

InitPipeline == InitWith({1}, {FALSE}, {0})

NextPipeline ==
    \/ \E w \in Streams : WorkerOpen(w)
    \/ \E w \in Streams : WorkerStopped(w)
    \/ \E w \in Streams : WorkerRead(w)
    \/ \E w \in Streams : WorkerPut(w)
    \/ Start
    \/ OrchProcess(PipelineEnv)
    \/ ManagerJoin

SpecPipeline == InitPipeline /\ [][NextPipeline]_vars

\* SpecFrame: _process_frame in the environment of SpecPipeline, for a
\* configuration with one enabled stream sampled at every frame, with and
\* without collect_demographics.
InitFrame == InitOf({{"A"}}, {MaxFrames}, {1}, BOOLEAN, {0})

SpecFrame == InitFrame /\ [][NextPipeline]_vars

\* The workers, the queue and the consume loop in the environment e, in
\* the runs in which CCTVAI.stop() is not called.
NextFrames(e) ==
    \/ \E w \in Streams : WorkerOpen(w)
    \/ \E w \in Streams : WorkerStopped(w)
    \/ \E w \in Streams : WorkerRead(w)
    \/ \E w \in Streams : WorkerPut(w)
    \/ Start
    \/ OrchProcess(e)
    \/ ManagerJoin

\* SpecGender: _process_frame and _flush_stats for one enabled stream with
\* collect_demographics on and the stats flushed at every frame, over frames
\* of up to MaxDet persons for whom analyze returns any of the gender tokens
\* that _flush_stats counts.
GenderOutcomes ==
    {[raises |-> FALSE, age |-> Some(34), gender |-> g, emotion |-> "happy"] :
        g \in {"Man", "Male", "Woman", "Female"}}

GenderEnv ==
    [dets |-> 0..MaxDet, predictions |-> {<<"walking", 90>>},
     faces |-> GenderOutcomes, faults |-> {"detect"}, ticks |-> {0}]

InitGender == InitOf({{"A"}}, {MaxFrames}, {1}, {TRUE}, {0})

NextGender == NextFrames(GenderEnv)

SpecGender == InitGender /\ [][NextGender]_vars

\* SpecScenario: one enabled stream whose source holds 2 * MaxRate frames,
\* sampled at any rate up to MaxRate, with collect_demographics on and an
\* aggregation interval of 0; the detector finds up to MaxDet persons on a
\* frame, analyze returns age 34 and gender "Man" for each, and no call
\* raises, so that the consume loop is never left.
ScenarioEnv ==
    [dets |-> 0..MaxDet, predictions |-> {<<"walking", 90>>},
     faces |-> {[raises |-> FALSE, age |-> Some(34), gender |-> "Man",
                 emotion |-> "happy"]},
     faults |-> {}, ticks |-> {0, 1}]

InitScenario == InitOf({{"A"}}, {2 * MaxRate}, 1..MaxRate, {TRUE}, {0})

NextScenario ==
    \/ \E w \in Streams : WorkerOpen(w)
    \/ \E w \in Streams : WorkerRead(w)
    \/ \E w \in Streams : WorkerPut(w)
    \/ Start
    \/ OrchProcess(ScenarioEnv)

SpecScenario == InitScenario /\ [][NextScenario]_vars

\* SpecStreams: two enabled streams sampled at every frame, with the stats
\* flushed at every frame and a ticking clock; the detector finds up to one
\* person on a frame, predict returns a behaviour of interest above the
\* threshold, and detect() and record_alert() can raise.
StreamsEnv ==
    [dets |-> {0, 1}, predictions |-> {<<"smoking", 75>>}, faces |-> FaceOutcomes,
     faults |-> {"detect", "record_alert"}, ticks |-> {0, 1}]

InitStreams == InitWith({1}, {FALSE}, {0})

NextStreams == NextFrames(StreamsEnv)

SpecStreams == InitStreams /\ [][NextStreams]_vars

\* SpecFlush: _flush_stats at every frame of one enabled stream whose source
\* holds 2 * MaxRate frames, with collect_demographics on, over frames of up
\* to MaxDet persons for whom analyze returns ages of three decades or no
\* age, and an emotion or none.
FlushOutcomes ==
    {[raises |-> FALSE, age |-> Some(9),  gender |-> "Man",   emotion |-> "happy"],
     [raises |-> FALSE, age |-> Some(27), gender |-> "Woman", emotion |-> "sad"],
     [raises |-> FALSE, age |-> Some(34), gender |-> None,    emotion |-> None],
     [raises |-> FALSE, age |-> NoneInt,  gender |-> "Man",   emotion |-> "happy"]}

FlushEnv ==
    [dets |-> 0..MaxDet, predictions |-> {<<"walking", 90>>},
     faces |-> FlushOutcomes, faults |-> {"detect"}, ticks |-> {0}]

InitFlush == InitOf({{"A"}}, {2 * MaxRate}, {1}, {TRUE}, {0})

NextFlush == NextFrames(FlushEnv)

SpecFlush == InitFlush /\ [][NextFlush]_vars

(* ================================ claims ============================== *)
\* The frames of stream w among a sequence of frames, as their frame_ids.
IdsOf(fs, w) ==
    LET own == SelectSeq(fs, LAMBDA f : f.stream = w)
    IN  [i \in DOMAIN own |-> own[i].frame_id]

\* C1: the queue never holds more than QueueMaxSize frames; while it holds
\* QueueMaxSize frames no put completes; and a worker that has an accepted
\* frame in hand leaves its put only by appending that frame to the queue.
C1_Backpressure ==
    /\ [](Len(queue) <= QueueMaxSize)
    /\ [][ /\ Len(queue) >= QueueMaxSize => enqueued' = enqueued
           /\ \A w \in Streams :
                (wpc[w] = "put" /\ wpc'[w] # "put") =>
                    /\ queue' = Append(queue, Frame(w, frame_id[w]))
                    /\ enqueued' = Append(enqueued, Frame(w, frame_id[w])) ]_vars

\* C1 witness: the queue is full, a worker waits in put with an accepted
\* frame, and the orchestrator has already taken frames from the queue.
C1_Witness ==
    /\ Len(queue) = QueueMaxSize
    /\ \E w \in Streams : wpc[w] = "put"
    /\ dequeued # <<>>

\* C2: for every stream with sampling rate N, the frame_ids put on the queue
\* so far, followed by the one waiting in put, are exactly N, 2N, ..., up to
\* the number of frames decoded: a decoded frame is enqueued iff its 1-based
\* index is a multiple of N, and it carries that index.
C2_Sampling ==
    \A w \in Streams :
        LET N    == sampling_rate[w]
            put  == IdsOf(enqueued, w)
            ids  == IF wpc[w] = "put" THEN Append(put, frame_id[w]) ELSE put
        IN  /\ Len(ids) = frame_id[w] \div N
            /\ \A i \in DOMAIN ids : ids[i] = i * N

\* C2 witness: a stream sampled at every second frame has enqueued its frame
\* 2 (and skipped frame 1), and a stream sampled at every frame its frames 1, 2.
C2_Witness ==
    /\ \E w \in Streams : sampling_rate[w] = 2 /\ IdsOf(enqueued, w) = <<2>>
    /\ \E w \in Streams : sampling_rate[w] = 1 /\ IdsOf(enqueued, w) = <<1, 2>>

\* C7: the frames dequeued so far, followed by the frames still on the queue,
\* are the frames enqueued so far, in the order their puts completed: the
\* dequeued frames are a prefix of the enqueued ones.
C7_Fifo == enqueued = dequeued \o queue

\* C7 witness: frames of both streams have been dequeued after two frames
\* were waiting on the queue together, and frames are still waiting.
C7_Witness ==
    /\ Len(dequeued) >= 2
    /\ dequeued[1].stream # dequeued[2].stream
    /\ Len(queue) = QueueMaxSize

\* C3: once CCTVAI.stop() has been called, the consume loop is eventually
\* left and StreamManager.stop() runs (which is what sets stop_event).
C3_StopEndsLoop == cctv_stop_event ~> stop_event

\* C4: when start() has ended because of the stop request, every frame that
\* was on the bus or already taken from it when stop() was called has been
\* processed.
C4_DrainThenStop ==
    (cctv_stop_event /\ exc = "none" /\ opc \in {"joining", "returned"})
        => nprocessed >= enqAtStop

\* C5: once stop_event is set, every worker thread eventually ends (and has
\* released its capture when it had opened one).
C5_WorkersExit ==
    stop_event ~> (\A w \in Streams : Terminated(w) /\ capture[w] # "open")

\* C6: a record_stat or record_alert call that fails while a frame is
\* processed does not end the consume loop.
C6_PersistenceIsolated ==
    last.exc \in {"record_stat", "record_alert"} => opc = "loop"

\* An observation whose behaviour result raises an alert.
Alerting(o) == Qualifies(o.last_event, o.last_event_confidence)

\* C8: a frame processed to the end on which the classifier's result is a
\* behaviour of interest above the threshold has exactly one alert recorded.
C8_OneAlertPerFrame ==
    ( /\ last.exc = "none"
      /\ nprocessed > 0
      /\ \E i \in DOMAIN last.observations : Alerting(last.observations[i]) )
        => Len(last.alerts) = 1

\* C9: each of the first Window-1 frames processed (to the end) gives
\* ("unknown", 0) on every one of its observations and records no alert.
C9_UnknownBeforeWindow ==
    (nprocessed \in 1..(Window - 1) /\ last.exc = "none") =>
        /\ \A i \in DOMAIN last.observations :
             /\ last.observations[i].last_event = "unknown"
             /\ last.observations[i].last_event_confidence = 0
        /\ last.alerts = <<>>

\* C10: after detect() raised on a frame of one stream, the frames of the
\* other streams waiting on the queue are still consumed: the consume loop
\* has not been left.
C10_DetectorFailureIsolated ==
    ( /\ last.exc = "detect"
      /\ \E i \in DOMAIN queue : queue[i].stream # last.frame.stream )
        => opc = "loop"

\* The observations of a list whose behaviour label is a configured behaviour
\* of interest with a confidence strictly above the threshold.
AboveThreshold(observations) ==
    SelectSeq(observations,
              LAMBDA o : /\ o.last_event \in behaviour_labels
                         /\ o.last_event_confidence > Threshold)

\* C11: the alerts recorded for a frame are, in order, one per observation of
\* the frame whose label is a behaviour of interest and whose confidence is
\* strictly above the threshold, and no other; each label alerted has its
\* active_alerts entry of the frame's stream set to the time of the frame;
\* and this holds whatever active_alerts held before the frame.
C11_AlertRule ==
    nprocessed > 0 =>
        LET s == last.frame.stream
            q == AboveThreshold(last.observations)
        IN  /\ last.alerts =
                  [i \in DOMAIN q |->
                     [stream_name |-> s, event_type |-> q[i].last_event,
                      confidence |-> q[i].last_event_confidence]]
            /\ \A i \in DOMAIN last.alerts :
                  LET l == last.alerts[i].event_type
                  IN  /\ l \in DOMAIN states[s].active_alerts
                      /\ states[s].active_alerts[l] = now

\* C11 witness: a frame processed while active_alerts already held the label
\* (an earlier frame alerted) recorded an alert again, for one observation,
\* and none for an observation whose confidence is exactly the threshold.
C11_Witness ==
    /\ nprocessed >= 2
    /\ "smoking" \in last.active_before
    /\ Len(last.alerts) = 1
    /\ \E i \in DOMAIN last.observations :
          /\ last.observations[i].last_event = "smoking"
          /\ last.observations[i].last_event_confidence = Threshold

\* C12: once a frame has been processed up to the assignment of persons
\* (whether or not the flush that follows succeeds), persons of its stream
\* is the list of observations built from that frame: as many as the
\* detector returned, the i-th for the i-th detection, and nothing else.
C12_PersonsReplaced ==
    (nprocessed > 0 /\ last.exc \in {"none", "record_stat"}) =>
        LET persons == states[last.frame.stream].persons
        IN  /\ Len(persons) = last.detections
            /\ \A i \in DOMAIN persons : persons[i].bbox = i
            /\ persons = last.observations

\* C12 witness: the second frame of a stream, with one detection, has been
\* processed after its first frame, which had a detection too (the classifier
\* buffer still holds it), and persons holds one observation.
C12_Witness ==
    /\ last.frame.frame_id = 2
    /\ last.exc = "none"
    /\ last.detections = 1
    /\ Len(states[last.frame.stream].persons) = 1
    /\ Len(buffer) >= 2
    /\ buffer[Len(buffer) - 1] = Frame(last.frame.stream, 1)

\* An observation whose demographic fields were left at their default None.
Unset(o) == o.age = NoneInt /\ o.gender = None /\ o.emotion = None

\* C13: an analyze that raises on a detection leaves that detection's
\* observation with age, gender and emotion unset; the observation is in
\* persons and every detection of the frame has its observation there (the
\* frame is processed to the end unless another call raises), so that the
\* person_count flushed counts it.
C13_AnalyzerFailureIsolated ==
    nprocessed > 0 =>
        /\ \A i \in last.analyze_raised \cap DOMAIN last.observations :
              Unset(last.observations[i])
        /\ last.exc \in {"none", "detect", "record_alert", "record_stat"}
        /\ last.exc \in {"none", "record_stat"} =>
              LET persons == states[last.frame.stream].persons
              IN  /\ Len(persons) = last.detections
                  /\ \A i \in last.analyze_raised :
                        /\ i \in DOMAIN persons
                        /\ persons[i].bbox = i
                        /\ Unset(persons[i])
        /\ last.stat # NoStat => last.stat.person_count = last.detections

\* C13 witness: analyze raised on the first of two detections and returned
\* for the second; both observations are in persons, and the stat flushed
\* counts two persons.
C13_Witness ==
    /\ collect_demographics
    /\ last.exc = "none"
    /\ last.detections = 2
    /\ last.analyze_raised = {1}
    /\ Len(states[last.frame.stream].persons) = 2
    /\ states[last.frame.stream].persons[2].age = Some(34)
    /\ last.stat # NoStat
    /\ last.stat.person_count = 2

\* C14: when a frame of stream s is processed at time now', a stat record is
\* emitted only if now' - last_stat_flush >= aggregation_interval_seconds,
\* and it is emitted whenever that holds and the frame is processed without
\* an exception; when it is emitted last_stat_flush becomes now', otherwise
\* last_stat_flush is unchanged; and last_stat_flush of no stream decreases.
C14_FlushRule ==
    [][ /\ \A s \in Streams :
              states'[s].last_stat_flush >= states[s].last_stat_flush
        /\ nprocessed' # nprocessed =>
              LET s    == last'.frame.stream
                  due  == now' - states[s].last_stat_flush
                              >= aggregation_interval_seconds
                  emit == last'.stat # NoStat
              IN  /\ emit => due /\ last'.stat.stream_name = s
                  /\ (due /\ last'.exc = "none") => emit
                  /\ states'[s].last_stat_flush =
                        IF emit THEN now' ELSE states[s].last_stat_flush ]_vars

\* C14 witness: with an interval of one tick, the second frame of a stream
\* was processed one tick after the stream's state was created and its
\* stats were flushed; the first frame, processed before the tick, was not
\* flushed (last_stat_flush would be the time of that flush otherwise).
C14_Witness ==
    /\ aggregation_interval_seconds = 1
    /\ now = 1
    /\ nprocessed = 2
    /\ dequeued[1].stream = dequeued[2].stream
    /\ last.stat # NoStat
    /\ states[last.frame.stream].last_stat_flush = 1

\* The number of observations of a list whose gender is one of the tokens.
GenderCount(observations, tokens) ==
    Cardinality({i \in DOMAIN observations : observations[i].gender \in tokens})

\* A count handed to record_stat, as a number (None read as 0).
CountOf(c) == IF c = NoneInt THEN 0 ELSE c[1]

\* C15: in every stat record flushed, male_count is the number of the frame's
\* observations whose gender is "Man" or "Male" and female_count the number
\* whose gender is "Woman" or "Female" (a count of None being read as 0).
C15_GenderCounts ==
    last.stat # NoStat =>
        /\ CountOf(last.stat.male_count) =
              GenderCount(last.observations, {"Man", "Male"})
        /\ CountOf(last.stat.female_count) =
              GenderCount(last.observations, {"Woman", "Female"})

\* C16: a worker whose source could not be opened has decoded and enqueued
\* no frame and holds no capture; it stays ended for the rest of the run;
\* and the step in which it fails changes nothing else: not the queue, not
\* stop_event, not the other workers, not the orchestrator.
C16_OpenFailureIsolated ==
    /\ [](\A w \in Streams :
            wpc[w] = "failed" =>
                /\ frame_id[w] = 0
                /\ capture[w] = "none"
                /\ IdsOf(enqueued, w) = <<>>
                /\ \A i \in DOMAIN queue : queue[i].stream # w)
    /\ [][ \A w \in Streams :
              /\ wpc[w] = "failed" => wpc'[w] = "failed"
              /\ (wpc[w] # "failed" /\ wpc'[w] = "failed") =>
                    /\ \A v \in Streams \ {w} : wpc'[v] = wpc[v]
                    /\ UNCHANGED <<frame_id, capture, queue, stop_event,
                                   cctv_stop_event, opc, exc, pipeline,
                                   enqueued, dequeued>> ]_vars

\* C16 witness: one stream's worker has failed to open its source while the
\* other stream's worker is still in its loop, has had two frames processed,
\* and the consume loop is running.
C16_Witness ==
    \E w \in Streams : \E v \in Streams \ {w} :
        /\ wpc[w] = "failed"
        /\ wpc[v] = "loop"
        /\ IdsOf(dequeued, v) = <<1, 2>>
        /\ nprocessed = 2
        /\ opc = "loop"
        /\ ~stop_event

\* C17: once stop_event is set (by the StreamManager.stop() of a start()
\* that no exception ended), no put of any worker completes: the frames
\* enqueued stay as they were when the signal was set.
C17_NoPutAfterStop ==
    [][ (stop_event /\ exc = "none") => enqueued' = enqueued ]_vars

\* C18: StreamManager.stop() has set stop_event from its first statement on,
\* and once it has been entered it eventually returns (start() then returns,
\* or re-raises the exception that ended its loop), whatever the workers do.
C18_StopReturns ==
    /\ [](opc \in {"joining", "returned", "raised"} => stop_event)
    /\ (opc = "joining") ~> (opc \in {"returned", "raised"})

\* C18 witness: StreamManager.stop() has returned while a worker is still
\* waiting in put on the full queue, which nobody takes from any more.
C18_Witness ==
    /\ opc \in {"returned", "raised"}
    /\ Len(queue) = QueueMaxSize
    /\ \E w \in Streams : wpc[w] = "put"

\* C19: with an aggregation interval of 0, every frame processed emits one
\* stat record, for the frame's stream, whose person_count, male_count and
\* age_distribution are those of the frame's observations (every person of
\* age 34 and gender "Man": all counted male, all in the bucket "30s"); and
\* the frames processed of a stream sampled at rate N are the decoded frames
\* N, 2N, ...: never more than floor(D/N) of the D frames decoded, and
\* exactly floor(D/N) once the worker has ended and the queue is drained.
C19_FlushEveryFrame ==
    /\ [][ nprocessed' # nprocessed =>
              /\ nprocessed' = nprocessed + 1
              /\ last'.stat # NoStat
              /\ last'.stat.stream_name = last'.frame.stream
              /\ states'[last'.frame.stream].last_stat_flush = now' ]_vars
    /\ [](nprocessed > 0 =>
            LET n == Len(last.observations)
            IN  /\ n = last.detections
                /\ last.stat.person_count = n
                /\ CountOf(last.stat.male_count) = n
                /\ n > 0 => last.stat.age_distribution = [k \in {<<30, "s">>} |-> n]
                /\ n = 0 => last.stat.age_distribution = NoneDict)
    /\ [](\A w \in Streams :
            LET done == IdsOf(dequeued, w)
                N    == sampling_rate[w]
            IN  /\ \A i \in DOMAIN done : done[i] = i * N
                /\ Len(done) <= frame_id[w] \div N
                /\ (Terminated(w) /\ queue = <<>>) =>
                      Len(done) = frame_id[w] \div N)
    /\ [](nprocessed = Len(dequeued))

\* C19 witness: the stream is sampled at every second frame, 4 frames were
\* decoded and the source ended; the frames processed are the decoded frames
\* 2 and 4, and the record of frame 4, with one person detected, has
\* person_count 1, male_count 1 and age_distribution {"30s": 1}.
C19_Witness ==
    \E w \in Streams :
        /\ sampling_rate[w] = 2
        /\ frame_id[w] = 4
        /\ wpc[w] = "done"
        /\ IdsOf(dequeued, w) = <<2, 4>>
        /\ nprocessed = 2
        /\ last.frame = Frame(w, 4)
        /\ last.detections = 1
        /\ last.stat.person_count = 1
        /\ last.stat.male_count = Some(1)
        /\ last.stat.age_distribution = [k \in {<<30, "s">>} |-> 1]

\* C20: for each stream, the frame_ids of the frames the consume loop has
\* taken from the queue, in the order it took them, are strictly increasing.
C20_FrameIdsIncrease ==
    \A w \in Streams :
        LET ids == IdsOf(dequeued, w)
        IN  \A i \in DOMAIN ids : \A j \in DOMAIN ids :
                i < j => ids[i] < ids[j]

\* C20 witness: two frames of one stream have been processed, with a frame
\* of the other stream taken between them.
C20_Witness ==
    /\ Len(dequeued) = 3
    /\ nprocessed = 3
    /\ dequeued[1].stream = dequeued[3].stream
    /\ dequeued[2].stream # dequeued[1].stream
    /\ dequeued[1].frame_id < dequeued[3].frame_id

\* C21: the step that processes a frame of stream s leaves the StreamState
\* of every other stream as it was, and the alerts and the stat record it
\* emits carry the name of s; no other step changes any StreamState.
C21_StreamStateIsolated ==
    [][ IF nprocessed' # nprocessed
        THEN LET s == last'.frame.stream
             IN  /\ \A v \in Streams \ {s} : states'[v] = states[v]
                 /\ \A i \in DOMAIN last'.alerts :
                       last'.alerts[i].stream_name = s
                 /\ last'.stat # NoStat => last'.stat.stream_name = s
        ELSE states' = states ]_vars

\* C21 witness: a frame of stream B was processed, with an alert and a stat
\* record, one tick after a frame of stream A; A's state still holds A's
\* observation, no active alert, and the time of A's own flush.
C21_Witness ==
    /\ last.frame.stream = "B"
    /\ last.alerts # <<>>
    /\ last.stat # NoStat
    /\ states["B"].last_stat_flush = 1
    /\ DOMAIN states["B"].active_alerts = {"smoking"}
    /\ Len(states["A"].persons) = 1
    /\ states["A"].last_stat_flush = 0
    /\ DOMAIN states["A"].active_alerts = {}

\* The key of the decade of an age: floor(age/10)*10 followed by "s".
DecadeKey(a) == <<(a \div 10) * 10, "s">>

\* C22: the stat record flushed for a stream is a function of the stream's
\* persons list: person_count is its length; age_distribution has one key
\* per decade of a known age (27 under "20s", 9 under "0s") with the number
\* of observations of that decade, and nothing for unknown ages;
\* emotion_distribution has one key per known emotion with its number of
\* observations; the flush leaves persons and active_alerts as the frame
\* set them; and two flushes in a row over equal persons lists of a stream
\* give equal records.
C22_FlushIsPure ==
    /\ [](last.stat # NoStat =>
            LET s    == last.frame.stream
                p    == states[s].persons
                aged == {i \in DOMAIN p : p[i].age # NoneInt}
                felt == {i \in DOMAIN p : p[i].emotion # None}
                A    == last.stat.age_distribution
                E    == last.stat.emotion_distribution
            IN  /\ last.stat.person_count = Len(p)
                /\ DOMAIN A = {DecadeKey(p[i].age[1]) : i \in aged}
                /\ \A k \in DOMAIN A :
                      A[k] = Cardinality({i \in aged : DecadeKey(p[i].age[1]) = k})
                /\ \A i \in aged :
                      /\ p[i].age = Some(27) => <<20, "s">> \in DOMAIN A
                      /\ p[i].age = Some(9) => <<0, "s">> \in DOMAIN A
                /\ DOMAIN E = {p[i].emotion : i \in felt}
                /\ \A k \in DOMAIN E :
                      E[k] = Cardinality({i \in felt : p[i].emotion = k})
                /\ p = last.observations)
    /\ [][ ( /\ nprocessed' # nprocessed
              /\ last.stat # NoStat
              /\ last'.stat # NoStat
              /\ last'.frame.stream = last.frame.stream
              /\ states'[last.frame.stream].persons
                    = states[last.frame.stream].persons )
            => last'.stat = last.stat ]_vars

\* C22 witness: a flush over a person of age 9 and a person of unknown age
\* has been done, and the next frame of the stream can be flushed over an
\* equal persons list.
C22_Witness ==
    /\ ENABLED ( /\ OrchProcess(FlushEnv)
                 /\ last'.stat # NoStat
                 /\ states'["A"].persons = states["A"].persons )
    /\ last.frame.stream = "A"
    /\ last.stat # NoStat
    /\ last.stat.person_count = 2
    /\ last.observations[1].age = Some(9)
    /\ last.observations[2].age = NoneInt
    /\ last.stat.age_distribution = [k \in {<<0, "s">>} |-> 1]
    /\ last.stat.emotion_distribution = [k \in {"happy"} |-> 2]

\* C23: there is one classifier buffer for all the streams: the i-th
\* observation of a frame gets the label "unknown" exactly when the entries
\* the buffer held before the frame, from frames of any stream, and the i
\* appended for this frame are fewer than Window; and every entry of the
\* buffer is a frame that was taken from the queue, of whichever stream.
C23_SharedWindow ==
    /\ [][ nprocessed' # nprocessed =>
              \A i \in DOMAIN last'.observations :
                  (last'.observations[i].last_event = "unknown")
                      <=> (Len(buffer) + i < Window) ]_vars
    /\ [](\A i \in DOMAIN buffer : \E j \in DOMAIN dequeued : buffer[i] = dequeued[j])

\* C23 witness: the first frame of stream B that is processed gets a label
\* other than "unknown" and an alert, the buffer having been filled by a
\* frame of stream A.
C23_Witness ==
    /\ IdsOf(dequeued, "B") = <<1>>
    /\ last.frame = Frame("B", 1)
    /\ last.detections = 1
    /\ last.observations[1].last_event = "smoking"
    /\ Len(last.alerts) = 1
    /\ last.alerts[1].stream_name = "B"
    /\ buffer[1].stream = "A"

\* C24: when every worker thread has ended and the queue is empty while
\* start() is in its consume loop, start() eventually ends.
C24_StartReturnsWhenSourcesEnd ==
    ( /\ \A w \in Streams : Terminated(w)
      /\ queue = <<>>
      /\ opc = "loop" )
        ~> (opc \in {"returned", "raised"})

\* C25: start() ends (returns, or raises the exception that left its loop)
\* only out of StreamManager.stop(), which has set stop_event and joined the
\* workers; and stop_event is not set before start() has left its consume
\* loop.
C25_StopRunsOnEveryExit ==
    /\ [](opc \in {"returned", "raised"} => stop_event)
    /\ [](opc \in {"init", "loop"} => ~stop_event)
    /\ [][ /\ (opc' \in {"returned", "raised"} /\ opc' # opc) => opc = "joining"
           /\ (opc' = "joining" /\ opc # "joining") => (opc = "loop" /\ stop_event')
           /\ stop_event => stop_event' ]_vars

\* C25 witness: start() has ended with the exception that the second frame
\* processed raised; stop_event is set, one worker has ended and released
\* its capture, and another is still waiting in put after the joins.
C25_Witness ==
    /\ opc = "raised"
    /\ exc # "none"
    /\ nprocessed = 2
    /\ stop_event
    /\ \E w \in Streams : wpc[w] = "done" /\ capture[w] = "released"
    /\ \E w \in Streams : wpc[w] = "put"

\* The last Window entries of a sequence.
LastWindow(q) ==
    IF Len(q) <= Window THEN q ELSE SubSeq(q, Len(q) - Window + 1, Len(q))

\* C26: the classifier buffer changes only while a frame is processed; it
\* never holds more than Window entries and never gets shorter; a frame
\* processed to the end of its d detections appends d entries, all of them
\* that frame (the oldest entries beyond Window being dropped); and a frame
\* with no detection leaves the buffer as it was and records no alert.
C26_WindowPerDetection ==
    /\ [](Len(buffer) <= Window)
    /\ [][ /\ Len(buffer') >= Len(buffer)
           /\ nprocessed' = nprocessed => buffer' = buffer
           /\ (nprocessed' # nprocessed /\ last'.exc \in {"none", "record_stat"}) =>
                 LET d == last'.detections
                 IN  /\ buffer' = LastWindow(buffer \o [i \in 1..d |-> last'.frame])
                     /\ d = 0 => (buffer' = buffer /\ last'.alerts = <<>>) ]_vars

\* C26 witness: a frame with no detection has been processed after a frame
\* with two detections: the buffer still holds the two entries of that frame.
C26_Witness ==
    /\ nprocessed = 2
    /\ last.exc = "none"
    /\ last.detections = 0
    /\ last.frame.frame_id = 2
    /\ buffer = <<Frame(last.frame.stream, 1), Frame(last.frame.stream, 1)>>

====
